---- MODULE Spec2Model ----
(***************************************************************************)
(* Adaptive IoT traffic control: the AdaptiveController (green-time        *)
(* allocation), the VirtualSensor (demand source) and the Simulator        *)
(* (playback scheduler), modelled from src/js/controller.js,               *)
(* src/unnamed/part_002 (VirtualSensor.js) and src/js/simulator.js.        *)
(*                                                                         *)
(* Arithmetic: green times, config values and the readings handed to the   *)
(* controller are integers.  Math.floor((d / total) * availableTime) is    *)
(* modelled by the exact floor of the rational d*availableTime/total.      *)
(* Date.now() is the variable now, in milliseconds, advancing in whole     *)
(* seconds, so that realElapsedMs / 1000 is an integer.                    *)
(***************************************************************************)
EXTENDS Integers, Sequences, FiniteSets, TLC

VARIABLES
    \* AdaptiveController fields (controller.js:23-28)
    cycleLength, minGreen, maxGreen, yellowTime, allRedTime, lanes,
    \* outcome of the last call made on the controller (observer)
    ret,
    \* Simulator fields (simulator.js:25-38)
    isPaused, isRunning, speedMultiplier, intervalId, cycleCount,
    simulationDurationSeconds, simulationStartTime, elapsedTimeSeconds,
    pausedAtSeconds,
    \* environment: Date.now(), the active setInterval timers, the timer
    \* callbacks queued in the event loop
    now, timers, queued,
    \* the four VirtualSensor objects and the number of sampling rounds
    sensors, samples,
    \* the Dashboard sink: records received since its last reset
    dashboard,
    \* "step" right after a call of Simulator.step(), "threw" right after a
    \* call of setSpeed that threw, "caught" right after a tick that caught
    \* an exception, "loaded" right after a scenario was loaded, "other"
    \* otherwise (observer: it makes a call that changes nothing a step)
    lastOp

ctlVars == <<cycleLength, minGreen, maxGreen, yellowTime, allRedTime, lanes>>
simVars == <<isPaused, isRunning, speedMultiplier, intervalId, cycleCount,
             simulationDurationSeconds, simulationStartTime,
             elapsedTimeSeconds, pausedAtSeconds>>
envVars == <<now, timers, queued>>
vars == <<ctlVars, ret, simVars, envVars, sensors, samples, dashboard, lastOp>>

----------------------------------------------------------------------------
(* Bounds of the model *)

\* readings handed to the controller are multiples of DensityStep
DensityStep == 20
MaxLevel == 4

Min(a, b) == IF a < b THEN a ELSE b
Max(a, b) == IF a > b THEN a ELSE b
Sign(x) == IF x > 0 THEN 1 ELSE IF x < 0 THEN -1 ELSE 0

Lanes == {"north", "south", "east", "west"}
InitialLanes == <<"north", "south", "east", "west">>
\* JavaScript's null and undefined, for fields that otherwise hold a number
\* that is never -1 (a density in [0,100], a timer id >= 1, a start time that
\* is a multiple of 1000)
null == -1
undefined == -1

\* README example (part_003:152-167)
ReadmeDensities == [north |-> 80, south |-> 20, east |-> 60, west |-> 40]

Levels == {Min(100, l * DensityStep) : l \in 0..MaxLevel}
DensityVectors == [Lanes -> Levels]

\* values a caller may pass for each configuration field
CycleLengths == {40, 60}
MinGreens == {5, 10}
MaxGreens == {8, 60}
YellowTimes == {3}
AllRedTimes == {2}

----------------------------------------------------------------------------
(* AdaptiveController *)

RECURSIVE SeqSum(_, _)
SeqSum(s, f) == IF s = <<>> THEN 0 ELSE f[Head(s)] + SeqSum(Tail(s), f)

\* Object.values(o).reduce((sum, v) => sum + v, 0) for an object keyed by lane
SumValues(f) == SeqSum(InitialLanes, f)

\* controller.js:162-180; TRUE when _validateConfig throws
ValidateThrows(cl, mn, mx, yt, ar) ==
    \/ mn >= mx
    \/ 4 * (yt + ar) + 4 * mn > cl
    \/ cl <= 0 \/ mn < 0 \/ mx < 0

validateConfigThrows ==
    ValidateThrows(cycleLength, minGreen, maxGreen, yellowTime, allRedTime)

\* config.f || dflt (controller.js:23-27); an absent field is undefined
OrDefault(config, f, dflt) ==
    IF f \in DOMAIN config /\ config[f] # 0 THEN config[f] ELSE dflt

\* controller.js:69-71
availableTime == cycleLength - Len(lanes) * (yellowTime + allRedTime)

\* controller.js:76-77, 85: Math.floor(proportion * availableTime)
FloorRaw(densities, lane) ==
    (densities[lane] * availableTime) \div SumValues(densities)

\* controller.js:81-87
constrained(densities) ==
    [lane \in Lanes |->
        Max(minGreen, Min(maxGreen, FloorRaw(densities, lane)))]

\* Array.prototype.sort((a, b) => densities[b] - densities[a]): stable,
\* descending by density (controller.js:113)
RECURSIVE InsertDesc(_, _, _)
InsertDesc(x, s, densities) ==
    IF s = <<>> THEN <<x>>
    ELSE IF densities[Head(s)] >= densities[x]
         THEN <<Head(s)>> \o InsertDesc(x, Tail(s), densities)
         ELSE <<x>> \o s

\* controller.js:113 without the sort: the lanes in the order they have
unsortedLanes(s, densities) == s

RECURSIVE sortedLanes(_, _)
sortedLanes(s, densities) ==
    IF s = <<>> THEN <<>>
    ELSE InsertDesc(s[Len(s)],
                    sortedLanes(SubSeq(s, 1, Len(s) - 1), densities),
                    densities)

\* AdjustPass without the min/max test of controller.js:123
RECURSIVE AdjustPassUnbounded(_, _, _)
AdjustPassUnbounded(s, greenTimes, diff) ==
    IF s = <<>> \/ diff = 0 THEN greenTimes
    ELSE AdjustPassUnbounded(Tail(s),
             [greenTimes EXCEPT ![Head(s)] = greenTimes[Head(s)] + Sign(diff)],
             diff - Sign(diff))

\* controller.js:116-127: one pass over the sorted lanes
RECURSIVE AdjustPass(_, _, _)
AdjustPass(s, greenTimes, diff) ==
    IF s = <<>> \/ diff = 0 THEN greenTimes
    ELSE LET lane == Head(s)
             adjustment == Sign(diff)
             newValue == greenTimes[lane] + adjustment
         IN  IF newValue >= minGreen /\ newValue <= maxGreen
             THEN AdjustPass(Tail(s),
                             [greenTimes EXCEPT ![lane] = newValue],
                             diff - adjustment)
             ELSE AdjustPass(Tail(s), greenTimes, diff)

\* controller.js:105-130; the green times returned
redistribute(greenTimes, targetSum, densities) ==
    LET diff == targetSum - SumValues(greenTimes)
    IN  IF diff = 0 THEN greenTimes
        ELSE AdjustPass(sortedLanes(lanes, densities), greenTimes, diff)

\* controller.js:113: this.lanes after the call (sort works in place)
lanesAfter(densities) ==
    IF SumValues(densities) = 0 THEN lanes
    ELSE IF availableTime - SumValues(constrained(densities)) = 0 THEN lanes
         ELSE sortedLanes(lanes, densities)

\* controller.js:50-91 without the early return of lines 60-65 (the
\* zero total handed on to the constraint and redistribution steps)
computeGreenTimesNoZeroCase(densities) ==
    IF SumValues(densities) = 0
    THEN [greenTimes |-> redistribute([lane \in Lanes |-> minGreen],
                                      availableTime, densities),
          keys |-> lanes]
    ELSE [greenTimes |-> redistribute(constrained(densities), availableTime,
                                      densities),
          keys |-> lanes]

\* controller.js:50-91; the object returned: its values and its key order
computeGreenTimes(densities) ==
    IF SumValues(densities) = 0
    THEN [greenTimes |-> [lane \in Lanes |-> minGreen], keys |-> lanes]
    ELSE [greenTimes |-> redistribute(constrained(densities), availableTime,
                                      densities),
          keys |-> lanes]

\* the partial configurations passed to updateConfig: one field from a
\* slider (part_000:98-112) or all five from a saved scenario (part_000:420)
Field(f, S) == {[g \in {f} |-> v] : v \in S}
PartialConfigs ==
    Field("cycleLength", CycleLengths) \cup Field("minGreen", MinGreens)
        \cup Field("maxGreen", MaxGreens)
        \cup [cycleLength : CycleLengths, minGreen : MinGreens,
              maxGreen : MaxGreens, yellowTime : YellowTimes,
              allRedTime : AllRedTimes]

\* newConfig.f !== undefined ? newConfig.f : current
Updated(newConfig, f, current) ==
    IF f \in DOMAIN newConfig THEN newConfig[f] ELSE current

\* controller.js:138-156
UpdateConfig(newConfig) ==
    /\ cycleLength' = Updated(newConfig, "cycleLength", cycleLength)
    /\ minGreen' = Updated(newConfig, "minGreen", minGreen)
    /\ maxGreen' = Updated(newConfig, "maxGreen", maxGreen)
    /\ yellowTime' = Updated(newConfig, "yellowTime", yellowTime)
    /\ allRedTime' = Updated(newConfig, "allRedTime", allRedTime)
    /\ ret' = [op |-> "updateConfig", newConfig |-> newConfig,
               threw |-> ValidateThrows(cycleLength', minGreen', maxGreen',
                                        yellowTime', allRedTime')]
    /\ UNCHANGED lanes

\* a direct call of computeGreenTimes on the controller
ComputeGreenTimes(densities) ==
    /\ ret' = [op |-> "computeGreenTimes", densities |-> densities,
               threw |-> FALSE,
               greenTimes |-> computeGreenTimes(densities).greenTimes,
               keys |-> computeGreenTimes(densities).keys,
               constrained |-> IF SumValues(densities) = 0
                               THEN [lane \in Lanes |-> minGreen]
                               ELSE constrained(densities),
               availableTime |-> availableTime]
    /\ lanes' = lanesAfter(densities)
    /\ UNCHANGED <<cycleLength, minGreen, maxGreen, yellowTime, allRedTime>>

\* a reading that is not a number (undefined, NaN) and every number computed
\* from one; never a density or a green time
NaN == -2

\* the keys a readings object may have: the four lanes and one more
ReadingKeys == InitialLanes \o <<"center">>

\* densities[lane] used as a number: undefined for a missing key
readingOf(densities, lane) ==
    IF lane \in DOMAIN densities THEN densities[lane] ELSE NaN

\* controller.js:57: Object.values(densities).reduce((sum, d) => sum + d, 0)
RECURSIVE sumReadings(_, _)
sumReadings(keys, densities) ==
    IF keys = <<>> THEN 0
    ELSE IF Head(keys) \notin DOMAIN densities
    THEN sumReadings(Tail(keys), densities)
    ELSE IF densities[Head(keys)] = NaN
            \/ sumReadings(Tail(keys), densities) = NaN
    THEN NaN
    ELSE densities[Head(keys)] + sumReadings(Tail(keys), densities)

\* controller.js:73-87 for readings of any shape: Math.floor, Math.min and
\* Math.max of NaN are NaN
constrainedOf(densities) ==
    LET total == sumReadings(ReadingKeys, densities)
    IN  [lane \in Lanes |->
            IF total = NaN \/ readingOf(densities, lane) = NaN THEN NaN
            ELSE Max(minGreen,
                     Min(maxGreen,
                         (densities[lane] * availableTime) \div total))]

\* the readings object has exactly the four lanes as keys and a number for
\* each
wellFormed(densities) ==
    /\ DOMAIN densities = Lanes
    /\ \A lane \in Lanes : densities[lane] # NaN

\* controller.js:50-130 for a readings object that is not well formed.
\* With a NaN among the constrained values diff is NaN: the test of line
\* 110 fails, the comparator of the sort of line 113 is inconsistent (the
\* order it leaves is implementation-defined) and the tests of line 123 fail
\* for every lane, so the constrained values are returned as they are.
ComputeGreenTimesMalformed(densities) ==
    LET total == sumReadings(ReadingKeys, densities)
        values == constrainedOf(densities)
        hasNaN == \E lane \in Lanes : values[lane] = NaN
    IN  /\ ~wellFormed(densities)
        /\ ret' = [op |-> "computeGreenTimes", densities |-> densities,
                   threw |-> FALSE,
                   greenTimes |->
                       IF total = 0 THEN [lane \in Lanes |-> minGreen]
                       ELSE IF hasNaN THEN values
                       ELSE redistribute(values, availableTime, densities),
                   keys |-> lanes,
                   constrained |-> IF total = 0
                                   THEN [lane \in Lanes |-> minGreen]
                                   ELSE values,
                   availableTime |-> availableTime]
        /\ IF total = 0 THEN lanes' = lanes
           ELSE IF hasNaN
           THEN lanes' \in {s \in [1..4 -> Lanes] :
                               \A i, j \in 1..4 : i # j => s[i] # s[j]}
           ELSE IF availableTime - SumValues(values) = 0 THEN lanes' = lanes
           ELSE lanes' = sortedLanes(lanes, densities)
        /\ UNCHANGED <<cycleLength, minGreen, maxGreen, yellowTime, allRedTime>>

\* controller.js:52-54: the argument is not an object
ComputeGreenTimesNotObject ==
    /\ ret' = [op |-> "computeGreenTimes", threw |-> TRUE]
    /\ UNCHANGED <<cycleLength, minGreen, maxGreen, yellowTime, allRedTime,
                   lanes>>

\* controller.js:22-32: new AdaptiveController(config) that does not throw
ConstructorConfigs == PartialConfigs \cup {<<>>}

ControllerInit(config) ==
    /\ cycleLength = OrDefault(config, "cycleLength", 60)
    /\ minGreen = OrDefault(config, "minGreen", 10)
    /\ maxGreen = OrDefault(config, "maxGreen", 60)
    /\ yellowTime = OrDefault(config, "yellowTime", 3)
    /\ allRedTime = OrDefault(config, "allRedTime", 2)
    /\ lanes = InitialLanes
    /\ ~validateConfigThrows
    /\ ret = [op |-> "constructor", threw |-> FALSE]

\* part_001:33-39: the configuration the application constructs
MainConfig == [cycleLength |-> 60, minGreen |-> 10, maxGreen |-> 60,
               yellowTime |-> 3, allRedTime |-> 2]

----------------------------------------------------------------------------
(* Simulator, sensors, dashboard: initial state *)

\* part_001:24-27 and part_002:20-23
InitialDensity == [north |-> 40, south |-> 35, east |-> 45, west |-> 38]

SensorsInit ==
    /\ sensors = [lane \in Lanes |->
                    [lastDensity |-> InitialDensity[lane] * 100,
                     overrideDensity |-> null,
                     smoothedDensity |-> undefined]]
    /\ samples = 0

\* dashboard.js:16-34
DashboardInit == dashboard = [state |-> [cycleCount |-> 0], received |-> <<>>]

\* simulator.js:19-39
tickInterval == 2000

SimulatorInit ==
    /\ isPaused = FALSE
    /\ isRunning = FALSE
    /\ speedMultiplier = 1
    /\ intervalId = null
    /\ cycleCount = 0
    /\ simulationDurationSeconds = 0
    /\ simulationStartTime = null
    /\ elapsedTimeSeconds = 0
    /\ pausedAtSeconds = 0
    /\ lastOp = "other"

EnvInit == now = 0 /\ timers = <<>> /\ queued = {}

----------------------------------------------------------------------------
(* The controller driven directly by a caller *)

\* the README example and the vectors of extreme readings
CallerVectors == [Lanes -> {0, 100}] \cup {ReadmeDensities}

ControllerSpecInit ==
    /\ \E config \in ConstructorConfigs : ControllerInit(config)
    /\ SimulatorInit /\ EnvInit /\ SensorsInit /\ DashboardInit

CallUpdateConfig ==
    /\ \E newConfig \in PartialConfigs : UpdateConfig(newConfig)
    /\ UNCHANGED <<simVars, envVars, sensors, samples, dashboard, lastOp>>

CallComputeGreenTimes ==
    /\ \E densities \in CallerVectors : ComputeGreenTimes(densities)
    /\ UNCHANGED <<simVars, envVars, sensors, samples, dashboard, lastOp>>

\* readings objects that are not well formed: no key at all, a lane
\* missing, a key that is no lane, a reading that is not a number
MalformedVectors ==
    {<<>>,
     [lane \in Lanes \ {"west"} |-> ReadmeDensities[lane]],
     [key \in Lanes \cup {"center"} |->
         IF key \in Lanes THEN ReadmeDensities[key] ELSE 50],
     [ReadmeDensities EXCEPT !["east"] = NaN]}

CallComputeGreenTimesMalformed ==
    /\ \E densities \in MalformedVectors :
          ComputeGreenTimesMalformed(densities)
    /\ UNCHANGED <<simVars, envVars, sensors, samples, dashboard, lastOp>>

CallComputeGreenTimesNotObject ==
    /\ ComputeGreenTimesNotObject
    /\ UNCHANGED <<simVars, envVars, sensors, samples, dashboard, lastOp>>

ControllerNext ==
    \/ CallUpdateConfig \/ CallComputeGreenTimes
    \/ CallComputeGreenTimesMalformed \/ CallComputeGreenTimesNotObject

ControllerSpec == ControllerSpecInit /\ [][ControllerNext]_vars

----------------------------------------------------------------------------
(* The configuration of the controller under updates that carry zero or   *)
(* negative values                                                         *)

\* updates of one field to a value that is not positive
NonPositiveConfigs ==
    Field("cycleLength", {0}) \cup Field("minGreen", {0, -5})
        \cup Field("maxGreen", {0}) \cup Field("yellowTime", {0, -3})
        \cup Field("allRedTime", {0})

CallUpdateConfigNonPositive ==
    /\ \E newConfig \in NonPositiveConfigs : UpdateConfig(newConfig)
    /\ UNCHANGED <<simVars, envVars, sensors, samples, dashboard, lastOp>>

ConfigNext == CallUpdateConfig \/ CallUpdateConfigNonPositive

ConfigSpec == ControllerSpecInit /\ [][ConfigNext]_vars

----------------------------------------------------------------------------
(* computeGreenTimes as a function of the configuration, the lane order   *)
(* left by earlier calls and the readings: one call on each input         *)

\* every order of this.lanes: the sort of controller.js:113 leaves the lanes
\* in the order of the readings of the last redistributed call
LaneOrders ==
    {s \in [1..4 -> Lanes] : \A i, j \in 1..4 : i # j => s[i] # s[j]}

\* simulator.js:149-162, the reduce of lines 156-158 over the keys of
\* greenTimes in their order
RECURSIVE maxLane(_, _)
maxLane(keys, greenTimes) ==
    IF Len(keys) = 1 THEN keys[1]
    ELSE LET a == maxLane(SubSeq(keys, 1, Len(keys) - 1), greenTimes)
             b == keys[Len(keys)]
         IN  IF greenTimes[a] > greenTimes[b] THEN a ELSE b

\* _computeSignals marking the first key GREEN whatever the green times
computeSignalsFirstKey(greenTimes, keys) ==
    [lane \in Lanes |-> IF lane = keys[1] THEN "GREEN" ELSE "RED"]

\* simulator.js:149-162
computeSignals(greenTimes, keys) ==
    [lane \in Lanes |->
        IF lane = maxLane(keys, greenTimes) THEN "GREEN" ELSE "RED"]

AllocationSpecInit ==
    /\ \E config \in ConstructorConfigs :
          /\ cycleLength = OrDefault(config, "cycleLength", 60)
          /\ minGreen = OrDefault(config, "minGreen", 10)
          /\ maxGreen = OrDefault(config, "maxGreen", 60)
          /\ yellowTime = OrDefault(config, "yellowTime", 3)
          /\ allRedTime = OrDefault(config, "allRedTime", 2)
    /\ lanes \in LaneOrders
    /\ ~validateConfigThrows
    /\ \E densities \in DensityVectors :
          ret = [op |-> "pending", densities |-> densities, threw |-> FALSE]
    /\ SimulatorInit /\ EnvInit /\ SensorsInit /\ DashboardInit

ApplyComputeGreenTimes ==
    /\ ret.op = "pending"
    /\ ComputeGreenTimes(ret.densities)
    /\ UNCHANGED <<simVars, envVars, sensors, samples, dashboard, lastOp>>

\* simulator.js:116: the signals of the green times just computed
ApplyComputeSignals ==
    /\ ret.op = "computeGreenTimes"
    /\ ret' = [op |-> "computeSignals", densities |-> ret.densities,
               threw |-> FALSE, greenTimes |-> ret.greenTimes,
               keys |-> ret.keys,
               signals |-> computeSignals(ret.greenTimes, ret.keys)]
    /\ UNCHANGED <<ctlVars, simVars, envVars, sensors, samples, dashboard,
                   lastOp>>

AllocationNext == ApplyComputeGreenTimes \/ ApplyComputeSignals

AllocationSpec == AllocationSpecInit /\ [][AllocationNext]_vars

----------------------------------------------------------------------------
(* VirtualSensor.  Densities held by a sensor are fixed-point numbers in   *)
(* hundredths of a percent; the EMA product is rounded down to that unit.  *)

Percent(p) == p * 100

\* part_002:22: config.emaCoefficient || 0.7, in tenths
emaCoefficientTenths == 7

\* part_002:62, 80, 93 with the upper limit forgotten
clampPercentBelowOnly(x) == Max(0, x)

\* part_002:62, 80, 93: Math.max(0, Math.min(100, x)), in hundredths
clampPercent(x) == Max(0, Min(Percent(100), x))

\* date.getHours() of an invalid Date (generateDensity called with no
\* timestamp): NaN, for which every comparison is false
hourNaN == -1

\* part_002:49-54, in tenths
peakFactorTenths(hour) ==
    IF hour = hourNaN THEN 10
    ELSE IF (hour >= 7 /\ hour <= 9) \/ (hour >= 17 /\ hour <= 19) THEN 15
    ELSE IF hour >= 22 \/ hour <= 5 THEN 3
    ELSE 10

\* part_002:62 for a Gaussian draw given in percent; in hundredths
computedPercentOf(randomGaussian, hour) ==
    clampPercent(randomGaussian * peakFactorTenths(hour) * 10)

\* part_002:64-83 with computedPercent the clamped generated value of
\* part_002:62; the sensor after the call (the value returned is its
\* lastDensity)
generateDensity(sensor, computedPercent) ==
    LET targetDensity ==
            IF sensor.overrideDensity # null THEN sensor.overrideDensity
            ELSE computedPercent
        smoothed ==
            IF sensor.smoothedDensity = undefined THEN targetDensity
            ELSE sensor.smoothedDensity +
                 (emaCoefficientTenths * (targetDensity - sensor.smoothedDensity))
                     \div 10
        finalDensity == clampPercent(smoothed)
    IN  [lastDensity |-> finalDensity,
         overrideDensity |-> sensor.overrideDensity,
         smoothedDensity |-> smoothed]

\* part_002:92-96 without the assignment of lines 97-99
setDensityKeepsSmoothing(sensor, value) ==
    LET percent == clampPercent(value)
    IN  [lastDensity |-> percent,
         overrideDensity |-> percent,
         smoothedDensity |-> sensor.smoothedDensity]

\* part_002:92-100
setDensity(sensor, value) ==
    LET percent == clampPercent(value)
    IN  [lastDensity |-> percent,
         overrideDensity |-> percent,
         smoothedDensity |-> IF sensor.smoothedDensity # undefined
                             THEN percent ELSE sensor.smoothedDensity]

\* part_002:106-109 without the assignment of line 108
sensorResetKeepsOverride(sensor) ==
    [lastDensity |-> Percent(50),
     overrideDensity |-> sensor.overrideDensity,
     smoothedDensity |-> sensor.smoothedDensity]

\* part_002:106-109
sensorReset(sensor) ==
    [lastDensity |-> Percent(50),
     overrideDensity |-> null,
     smoothedDensity |-> sensor.smoothedDensity]

----------------------------------------------------------------------------
(* One sensor driven directly by a caller: samples, overrides and resets   *)
(* in any order                                                            *)

\* generateDensity calls made on the sensor in one behaviour
MaxSensorSamples == 3

\* the lane of the sensor that is driven
SensorLanes == {"north"}

\* values of the Gaussian draw of part_002:59, in percent
RandomGaussians == {-20, 0, 40, 70, 130}

\* hours of the day of the sampling instant, and the hour of no instant
Hours == {3, 8, 12, hourNaN}

\* arguments of setDensity: numbers in percent, in and out of [0,100], and
\* null for "no override"
DensityArguments == {-10, 0, 30, 100, 150}

\* part_002:93: Number(value) of a number or of null, in hundredths
NumberOf(value) == IF value = null THEN 0 ELSE Percent(value)

\* part_002:65-70: the value the smoothing is driven towards
targetDensity(sensor, computedPercent) ==
    IF sensor.overrideDensity # null THEN sensor.overrideDensity
    ELSE computedPercent

\* sensor.generateDensity(timestampMs)
SensorGenerateDensity ==
    \E lane \in SensorLanes, randomGaussian \in RandomGaussians,
       hour \in Hours :
        /\ samples < MaxSensorSamples
        /\ samples' = samples + 1
        /\ sensors' = [sensors EXCEPT
               ![lane] = generateDensity(@, computedPercentOf(randomGaussian,
                                                            hour))]
        /\ ret' = [op |-> "generateDensity", lane |-> lane,
                   randomGaussian |-> randomGaussian, hour |-> hour,
                   computedPercent |-> computedPercentOf(randomGaussian, hour),
                   targetDensity |->
                       targetDensity(sensors[lane],
                                     computedPercentOf(randomGaussian, hour)),
                   value |-> sensors'[lane].lastDensity]
        /\ UNCHANGED <<cycleLength, minGreen, maxGreen, yellowTime,
                       allRedTime, lanes, simVars, envVars, dashboard, lastOp>>

\* part_002:44-45: new Date(timestampMs).getHours(), with the clock set to
\* UTC; new Date(undefined) is an invalid date, whose getHours() is NaN
getHours(timestampMs) ==
    IF timestampMs = undefined THEN hourNaN
    ELSE (timestampMs \div 3600000) % 24

\* the wall-clock instants at which a tick samples: 03:00, 08:00, 12:00,
\* 18:00 and 23:00 of the first day
TickInstants == {h * 3600000 : h \in {3, 8, 12, 18, 23}}

\* simulator.js:109: the tick samples with sensor.generateDensity(), passing
\* no timestamp, at the wall-clock instant wallClockMs
SensorTickSample ==
    \E lane \in SensorLanes, randomGaussian \in RandomGaussians,
       wallClockMs \in TickInstants :
       \E hour \in {getHours(undefined)} :
        /\ samples < MaxSensorSamples
        /\ samples' = samples + 1
        /\ sensors' = [sensors EXCEPT
               ![lane] = generateDensity(@, computedPercentOf(randomGaussian,
                                                            hour))]
        /\ ret' = [op |-> "tick", lane |-> lane,
                   randomGaussian |-> randomGaussian,
                   wallClockMs |-> wallClockMs,
                   overridden |-> sensors[lane].overrideDensity # null,
                   peakFactorTenths |-> peakFactorTenths(hour),
                   value |-> sensors'[lane].lastDensity]
        /\ UNCHANGED <<cycleLength, minGreen, maxGreen, yellowTime,
                       allRedTime, lanes, simVars, envVars, dashboard, lastOp>>

\* sensor.setDensity(value)
SensorSetDensity ==
    \E lane \in SensorLanes, value \in DensityArguments \cup {null} :
        /\ sensors' = [sensors EXCEPT ![lane] = setDensity(@, NumberOf(value))]
        /\ ret' = [op |-> "setDensity", lane |-> lane, value |-> value]
        /\ UNCHANGED <<cycleLength, minGreen, maxGreen, yellowTime,
                       allRedTime, lanes, simVars, envVars, samples,
                       dashboard, lastOp>>

\* sensor.reset()
SensorReset ==
    \E lane \in SensorLanes :
        /\ sensors' = [sensors EXCEPT ![lane] = sensorReset(@)]
        /\ ret' = [op |-> "reset", lane |-> lane]
        /\ UNCHANGED <<cycleLength, minGreen, maxGreen, yellowTime,
                       allRedTime, lanes, simVars, envVars, samples,
                       dashboard, lastOp>>

\* the lane identifiers and the smoothing coefficients (in tenths) a
\* caller may construct a sensor with
ConstructorLanes == Lanes \cup {"center", "North"}
CoefficientsTenths == {-1, 0, 5, 10, 11}
SensorConfigs ==
    {<<>>} \cup {[emaCoefficient |-> c] : c \in CoefficientsTenths}

\* the constructor testing the coefficient against its lower limit only
virtualSensorThrowsBelowOnly(lane, coefficient) ==
    lane \notin Lanes \/ coefficient < 0

\* part_002:26-33: the tests that make the constructor throw, on the lane
\* and on this.emaCoefficient (in tenths)
virtualSensorThrows(lane, coefficient) ==
    lane \notin Lanes \/ coefficient < 0 \/ coefficient > 10

\* new VirtualSensor(lane, config), part_002:19-34
NewVirtualSensor ==
    \E lane \in ConstructorLanes, config \in SensorConfigs :
        /\ ret' = [op |-> "new VirtualSensor", lane |-> lane,
                   config |-> config,
                   emaCoefficient |->
                       OrDefault(config, "emaCoefficient", emaCoefficientTenths),
                   threw |-> virtualSensorThrows(lane,
                       OrDefault(config, "emaCoefficient", emaCoefficientTenths))]
        /\ UNCHANGED <<ctlVars, simVars, envVars, sensors, samples, dashboard,
                       lastOp>>

SensorSpecInit ==
    /\ ControllerInit(MainConfig)
    /\ SimulatorInit /\ EnvInit /\ SensorsInit /\ DashboardInit

SensorNext ==
    \/ SensorGenerateDensity \/ SensorSetDensity \/ SensorReset
    \/ NewVirtualSensor \/ SensorTickSample

SensorSpec == SensorSpecInit /\ [][SensorNext]_vars

----------------------------------------------------------------------------
(* Dashboard (the sink) *)

\* reset() of the dashboard keeping the records it has received
dashboardResetKeepsHistory ==
    [state |-> [cycleCount |-> 0], received |-> dashboard.received]

\* dashboard.js:493-510
dashboardReset ==
    [state |-> [cycleCount |-> 0], received |-> <<>>]

\* dashboard.js:61-63, 127-131
dashboardUpdate(newState) ==
    [state |-> newState,
     received |-> Append(dashboard.received, newState.cycleCount)]

----------------------------------------------------------------------------
(* Simulator *)

MaxClockSeconds == 1
MaxDuration == 1
MaxSpeed == 2
MaxSamples == 1
MaxQueued == 1

Durations == {0, MaxDuration}
Multipliers == (0..MaxSpeed) \cup {11}
\* the generated values of one sampling round (part_002:59-62), per lane
GenVectors == {[lane \in Lanes |-> Percent(ReadmeDensities[lane])]}
\* the lanes whose slider is moved and the values it is moved to
OverrideLanes == {"north"}
OverrideValues == {100}

\* clearInterval(id)
clearInterval(id) == [i \in (DOMAIN timers) \ {id} |-> timers[i]]

\* the handle returned by setInterval: one that names no live or queued timer
FreshId ==
    CHOOSE i \in 1..(MaxQueued + 2) :
        /\ i \notin (DOMAIN timers) \cup queued
        /\ \A j \in 1..(i - 1) : j \in (DOMAIN timers) \cup queued

\* the handle setInterval returns at simulator.js:240, after line 239 has
\* cleared the previous timer: one that names no live or queued timer
FreshIdAfterClear ==
    CHOOSE i \in 1..(MaxQueued + 2) :
        /\ i \notin (DOMAIN clearInterval(intervalId)) \cup queued
        /\ \A j \in 1..(i - 1) :
               j \in (DOMAIN clearInterval(intervalId)) \cup queued

\* simulator.js:71 and 240
adjustedInterval(multiplier) == tickInterval \div multiplier

\* simulator.js:90 with the pause test left out
tickSkipsUnlessPaused == ~isRunning

\* simulator.js:90: the test that makes tick() return at once
tickSkips == isPaused \/ ~isRunning

\* simulator.js:94-96: the elapsed simulated time a tick computes
tickElapsed == ((now - simulationStartTime) \div 1000) * speedMultiplier

\* simulator.js:99-100 with > for >=
durationExceeded(elapsed) ==
    simulationDurationSeconds > 0 /\ elapsed > simulationDurationSeconds

\* simulator.js:99-100: a finite duration is set and has run out
durationReached(elapsed) ==
    simulationDurationSeconds > 0 /\ elapsed >= simulationDurationSeconds

\* simulator.js:89-140, the body of tick(); gen is what the four sensors
\* generate if they are sampled, maxSamples the number of sampling rounds
\* the model follows
TickBounded(gen, maxSamples) ==
    IF tickSkips
    THEN UNCHANGED <<ctlVars, simVars, timers, sensors, samples, dashboard>>
    ELSE LET elapsed == tickElapsed
         IN  /\ elapsedTimeSeconds' = elapsed
             /\ IF durationReached(elapsed)
                THEN \* this.stop(), simulator.js:195-200
                     /\ timers' = clearInterval(intervalId)
                     /\ isRunning' = FALSE
                     /\ isPaused' = FALSE
                     /\ UNCHANGED <<ctlVars, speedMultiplier, intervalId,
                                    cycleCount, simulationDurationSeconds,
                                    simulationStartTime, pausedAtSeconds,
                                    sensors, samples, dashboard>>
                ELSE /\ samples < maxSamples
                     /\ samples' = samples + 1
                     /\ \E sampled \in {[lane \in Lanes |->
                              generateDensity(sensors[lane], gen[lane])]} :
                        \E densities \in {[lane \in Lanes |->
                              sampled[lane].lastDensity]} :
                        \E green \in {computeGreenTimes(densities)} :
                            /\ sensors' = sampled
                            /\ lanes' = lanesAfter(densities)
                            /\ dashboard' = dashboardUpdate(
                                 [cycleCount |-> cycleCount,
                                  densities |-> densities,
                                  greenTimes |-> green.greenTimes,
                                  signals |-> computeSignals(green.greenTimes,
                                                             green.keys),
                                  elapsedTime |-> elapsed,
                                  totalDuration |-> simulationDurationSeconds])
                     /\ cycleCount' = cycleCount + 1
                     /\ UNCHANGED <<cycleLength, minGreen, maxGreen, yellowTime,
                                    allRedTime, isPaused, isRunning,
                                    speedMultiplier, intervalId,
                                    simulationDurationSeconds,
                                    simulationStartTime, pausedAtSeconds,
                                    timers>>

\* simulator.js:89-140
Tick(gen) == TickBounded(gen, MaxSamples)

\* simulator.js:64 left out: the cycle counter keeps its value
startCycleCountKept == cycleCount

\* simulator.js:64: the cycle counter of a new simulation
startCycleCount == 0

\* simulator.js:46-76
Start(durationSeconds) ==
    /\ lastOp' = "other"
    /\ IF isRunning /\ ~isPaused
       THEN UNCHANGED <<simVars, timers, dashboard>>
       ELSE IF isPaused
       THEN /\ isPaused' = FALSE
            /\ UNCHANGED <<isRunning, speedMultiplier, intervalId, cycleCount,
                           simulationDurationSeconds, simulationStartTime,
                           elapsedTimeSeconds, pausedAtSeconds, timers,
                           dashboard>>
       ELSE /\ isRunning' = TRUE
            /\ isPaused' = FALSE
            /\ simulationDurationSeconds' = durationSeconds
            /\ simulationStartTime' = now
            /\ cycleCount' = startCycleCount
            /\ elapsedTimeSeconds' = 0
            /\ pausedAtSeconds' = 0
            /\ dashboard' = dashboardReset
            /\ intervalId' = FreshId
            /\ timers' = (FreshId :> adjustedInterval(speedMultiplier)) @@ timers
            /\ UNCHANGED speedMultiplier
    /\ UNCHANGED <<ctlVars, ret, now, queued, sensors, samples>>

\* pause() without the test of isRunning
PauseUnguarded ==
    /\ lastOp' = "other"
    /\ isPaused' = TRUE
    /\ pausedAtSeconds' = elapsedTimeSeconds
    /\ UNCHANGED <<ctlVars, ret, isRunning, speedMultiplier, intervalId,
                   cycleCount, simulationDurationSeconds, simulationStartTime,
                   elapsedTimeSeconds, envVars, sensors, samples, dashboard>>

\* simulator.js:168-174
Pause ==
    /\ lastOp' = "other"
    /\ IF ~isRunning
       THEN UNCHANGED <<isPaused, pausedAtSeconds>>
       ELSE /\ isPaused' = TRUE
            /\ pausedAtSeconds' = elapsedTimeSeconds
    /\ UNCHANGED <<ctlVars, ret, isRunning, speedMultiplier, intervalId,
                   cycleCount, simulationDurationSeconds, simulationStartTime,
                   elapsedTimeSeconds, envVars, sensors, samples, dashboard>>

\* simulator.js:180-189
Resume ==
    /\ lastOp' = "other"
    /\ IF ~isRunning \/ ~isPaused
       THEN UNCHANGED <<isPaused, simulationStartTime>>
       ELSE /\ isPaused' = FALSE
            /\ simulationStartTime' = now - (pausedAtSeconds * 1000)
    /\ UNCHANGED <<ctlVars, ret, isRunning, speedMultiplier, intervalId,
                   cycleCount, simulationDurationSeconds, elapsedTimeSeconds,
                   pausedAtSeconds, envVars, sensors, samples, dashboard>>

\* stop() that cancels the timer but leaves isRunning set
StopKeepsRunning ==
    /\ lastOp' = "other"
    /\ timers' = clearInterval(intervalId)
    /\ isPaused' = FALSE
    /\ UNCHANGED <<ctlVars, ret, isRunning, speedMultiplier, intervalId,
                   cycleCount, simulationDurationSeconds, simulationStartTime,
                   elapsedTimeSeconds, pausedAtSeconds, now, queued, sensors,
                   samples, dashboard>>

\* simulator.js:195-200
Stop ==
    /\ lastOp' = "other"
    /\ timers' = clearInterval(intervalId)
    /\ isRunning' = FALSE
    /\ isPaused' = FALSE
    /\ UNCHANGED <<ctlVars, ret, speedMultiplier, intervalId, cycleCount,
                   simulationDurationSeconds, simulationStartTime,
                   elapsedTimeSeconds, pausedAtSeconds, now, queued, sensors,
                   samples, dashboard>>

\* simulator.js:206-224
Reset ==
    /\ lastOp' = "other"
    /\ timers' = clearInterval(intervalId)
    /\ isPaused' = FALSE
    /\ isRunning' = FALSE
    /\ speedMultiplier' = 1
    /\ cycleCount' = 0
    /\ simulationDurationSeconds' = 0
    /\ simulationStartTime' = null
    /\ elapsedTimeSeconds' = 0
    /\ pausedAtSeconds' = 0
    /\ sensors' = [lane \in Lanes |-> sensorReset(sensors[lane])]
    /\ dashboard' = dashboardReset
    /\ UNCHANGED <<ctlVars, ret, intervalId, now, queued, samples>>

\* simulator.js:232: the test that makes setSpeed throw
setSpeedThrows(multiplier) == multiplier <= 0 \/ multiplier > 10

\* setSpeed storing the multiplier before it validates it
SetSpeedAssignsFirst(multiplier) ==
    /\ lastOp' = IF setSpeedThrows(multiplier) THEN "threw" ELSE "other"
    /\ speedMultiplier' = multiplier
    /\ IF isRunning /\ ~isPaused /\ ~setSpeedThrows(multiplier)
       THEN /\ intervalId' = FreshIdAfterClear
            /\ timers' = (FreshIdAfterClear :> adjustedInterval(multiplier))
                             @@ clearInterval(intervalId)
       ELSE UNCHANGED <<intervalId, timers>>
    /\ UNCHANGED <<ctlVars, ret, isPaused, isRunning, cycleCount,
                   simulationDurationSeconds, simulationStartTime,
                   elapsedTimeSeconds, pausedAtSeconds, now, queued,
                   sensors, samples, dashboard>>

\* setSpeed rescheduling by restarting the run: the elapsed time and the
\* cycle counter start again from zero
SetSpeedRestarts(multiplier) ==
    IF setSpeedThrows(multiplier)
    THEN /\ lastOp' = "threw"
         /\ UNCHANGED <<ctlVars, ret, simVars, envVars, sensors, samples,
                        dashboard>>
    ELSE /\ lastOp' = "other"
         /\ speedMultiplier' = multiplier
         /\ IF isRunning /\ ~isPaused
            THEN /\ intervalId' = FreshIdAfterClear
                 /\ timers' = (FreshIdAfterClear :> adjustedInterval(multiplier))
                                  @@ clearInterval(intervalId)
                 /\ elapsedTimeSeconds' = 0
                 /\ cycleCount' = 0
            ELSE UNCHANGED <<intervalId, timers, elapsedTimeSeconds,
                             cycleCount>>
         /\ UNCHANGED <<ctlVars, ret, isPaused, isRunning,
                        simulationDurationSeconds, simulationStartTime,
                        pausedAtSeconds, now, queued, sensors, samples,
                        dashboard>>

\* setSpeed creating the new timer without clearing the previous one
SetSpeedLeaksTimer(multiplier) ==
    IF setSpeedThrows(multiplier)
    THEN /\ lastOp' = "threw"
         /\ UNCHANGED <<ctlVars, ret, simVars, envVars, sensors, samples,
                        dashboard>>
    ELSE /\ lastOp' = "other"
         /\ speedMultiplier' = multiplier
         /\ IF isRunning /\ ~isPaused
            THEN /\ intervalId' = FreshId
                 /\ timers' = (FreshId :> adjustedInterval(multiplier)) @@ timers
            ELSE UNCHANGED <<intervalId, timers>>
         /\ UNCHANGED <<ctlVars, ret, isPaused, isRunning, cycleCount,
                        simulationDurationSeconds, simulationStartTime,
                        elapsedTimeSeconds, pausedAtSeconds, now, queued,
                        sensors, samples, dashboard>>

\* simulator.js:231-245; lastOp records that the call threw
SetSpeed(multiplier) ==
    IF setSpeedThrows(multiplier)
    THEN /\ lastOp' = "threw"
         /\ UNCHANGED <<ctlVars, ret, simVars, envVars, sensors, samples,
                        dashboard>>
    ELSE /\ lastOp' = "other"
         /\ speedMultiplier' = multiplier
         /\ IF isRunning /\ ~isPaused
            THEN /\ intervalId' = FreshIdAfterClear
                 /\ timers' = (FreshIdAfterClear :> adjustedInterval(multiplier))
                                  @@ clearInterval(intervalId)
            ELSE UNCHANGED <<intervalId, timers>>
         /\ UNCHANGED <<ctlVars, ret, isPaused, isRunning, cycleCount,
                        simulationDurationSeconds, simulationStartTime,
                        elapsedTimeSeconds, pausedAtSeconds, now, queued,
                        sensors, samples, dashboard>>

\* getRemainingTime without the test of isRunning
getRemainingTimeIgnoresRunning ==
    IF simulationDurationSeconds = 0 THEN 0
    ELSE Max(0, simulationDurationSeconds - elapsedTimeSeconds)

\* simulator.js:263-268: the value getRemainingTime() returns
getRemainingTime ==
    IF simulationDurationSeconds = 0 \/ ~isRunning THEN 0
    ELSE Max(0, simulationDurationSeconds - elapsedTimeSeconds)

\* step() without the test of lines 251-254: it always calls tick()
StepUnguarded ==
    /\ lastOp' = "step"
    /\ \E gen \in GenVectors : Tick(gen)
    /\ UNCHANGED <<ret, now, queued>>

\* simulator.js:250-256
Step ==
    /\ lastOp' = "step"
    /\ IF ~isPaused \/ ~isRunning
       THEN UNCHANGED <<ctlVars, simVars, timers, sensors, samples, dashboard>>
       ELSE \E gen \in GenVectors : Tick(gen)
    /\ UNCHANGED <<ret, now, queued>>

\* setInterval: the period of a live timer has run out and its callback is
\* queued in the event loop
TimerExpire ==
    /\ \E id \in DOMAIN timers :
          /\ id \notin queued
          /\ Cardinality(queued) < MaxQueued
          /\ queued' = queued \cup {id}
    /\ lastOp' = "other"
    /\ UNCHANGED <<ctlVars, ret, simVars, now, timers, sensors, samples,
                   dashboard>>

\* the event loop runs the queued callback of timer id, () => this.tick()
\* (simulator.js:72, 241); the callback of a cleared timer is dropped
RunCallback(id) ==
    /\ id \in queued
    /\ queued' = queued \ {id}
    /\ IF id \in DOMAIN timers
       THEN \E gen \in GenVectors : Tick(gen)
       ELSE UNCHANGED <<ctlVars, simVars, timers, sensors, samples, dashboard>>
    /\ lastOp' = "other"
    /\ UNCHANGED <<ret, now>>

TimerCallback == \E id \in queued : RunCallback(id)

\* part_000:363-368: a density slider sets an override on one sensor
HandleDensityChange ==
    /\ \E lane \in OverrideLanes, value \in OverrideValues :
          sensors' = [sensors EXCEPT
                         ![lane] = setDensity(@, Percent(Max(0, Min(100, value))))]
    /\ lastOp' = "other"
    /\ UNCHANGED <<ctlVars, ret, simVars, envVars, samples, dashboard>>

\* wall-clock time passes
Advance ==
    /\ now < MaxClockSeconds * 1000
    /\ now' = now + 1000
    /\ lastOp' = "other"
    /\ UNCHANGED <<ctlVars, ret, simVars, timers, queued, sensors, samples,
                   dashboard>>

CallStart == \E durationSeconds \in Durations : Start(durationSeconds)
CallSetSpeed == \E multiplier \in Multipliers : SetSpeed(multiplier)

Init ==
    /\ ControllerInit(MainConfig)
    /\ SimulatorInit /\ EnvInit /\ SensorsInit /\ DashboardInit

Next ==
    \/ CallStart \/ Pause \/ Resume \/ Stop \/ Reset \/ CallSetSpeed \/ Step
    \/ TimerExpire \/ TimerCallback \/ HandleDensityChange \/ Advance

Spec == Init /\ [][Next]_vars

----------------------------------------------------------------------------
(* The scheduler under the handlers of the interface that touch other      *)
(* objects: scenario loading, the density sliders, the configuration       *)
(* inputs                                                                  *)

\* saved scenarios (part_000:388-395): one saved after start(MaxDuration),
\* one saved after the first cycle of an unbounded run, with the fields of
\* the dashboard state that the load handler reads, and one saved while
\* the controller held a configuration that fails validation
Scenarios ==
    {[config |-> MainConfig, simulationDuration |-> MaxDuration,
      state |-> [cycleCount |-> 0], history |-> <<>>],
     [config |-> MainConfig, simulationDuration |-> 0,
      state |-> [cycleCount |-> 0,
                 densities |-> [lane \in Lanes |->
                                   Percent(ReadmeDensities[lane])],
                 elapsedTime |-> 0, totalDuration |-> 0],
      history |-> <<0>>],
     [config |-> [MainConfig EXCEPT !.cycleLength = 40],
      simulationDuration |-> MaxDuration,
      state |-> [cycleCount |-> 0], history |-> <<>>]}

\* part_000:420: TRUE when updateConfig(scenario.config) throws
loadThrows(scenario) ==
    ValidateThrows(scenario.config.cycleLength, scenario.config.minGreen,
                   scenario.config.maxGreen, scenario.config.yellowTime,
                   scenario.config.allRedTime)

\* part_000:456 for a density in hundredths of a percent: a density of at
\* most 1 is taken as a fraction, any other is rounded
sliderPercent(density) ==
    IF density <= 100 THEN density ELSE (density + 50) \div 100

\* part_000:449-465: the sensors after the sliders are synchronised
sensorsLoaded(scenario) ==
    IF "densities" \in DOMAIN scenario.state
    THEN [lane \in Lanes |->
             setDensity(sensors[lane],
                        Percent(sliderPercent(scenario.state.densities[lane])))]
    ELSE sensors

\* loading a scenario that also restores the cycle counter of the saved
\* state
LoadScenarioRestoresCounter(scenario) ==
    /\ lastOp' = "loaded"
    /\ UpdateConfig(scenario.config)
    /\ IF loadThrows(scenario)
       THEN UNCHANGED <<simulationDurationSeconds, dashboard, sensors,
                        cycleCount>>
       ELSE /\ simulationDurationSeconds' =
                   IF scenario.simulationDuration # 0
                   THEN scenario.simulationDuration ELSE 0
            /\ cycleCount' = scenario.state.cycleCount
            /\ dashboard' = [state |-> scenario.state,
                             received |-> scenario.history]
            /\ sensors' = sensorsLoaded(scenario)
    /\ UNCHANGED <<isPaused, isRunning, speedMultiplier, intervalId,
                   simulationStartTime, elapsedTimeSeconds, pausedAtSeconds,
                   envVars, samples>>

\* part_000:407-483, handleLoadScenario for a scenario found in the store;
\* an exception of updateConfig leaves the handler at line 420
LoadScenario(scenario) ==
    /\ lastOp' = "loaded"
    /\ UpdateConfig(scenario.config)
    /\ IF loadThrows(scenario)
       THEN UNCHANGED <<simulationDurationSeconds, dashboard, sensors>>
       ELSE /\ simulationDurationSeconds' =
                   IF scenario.simulationDuration # 0
                   THEN scenario.simulationDuration ELSE 0
            /\ dashboard' = [state |-> scenario.state,
                             received |-> scenario.history]
            /\ sensors' = sensorsLoaded(scenario)
    /\ UNCHANGED <<isPaused, isRunning, speedMultiplier, intervalId,
                   cycleCount, simulationStartTime, elapsedTimeSeconds,
                   pausedAtSeconds, envVars, samples>>

HandleLoadScenario == \E scenario \in Scenarios : LoadScenario(scenario)

\* part_000:94-112: the configuration inputs call updateConfig with one
\* field
SliderConfigs == Field("minGreen", {5})

HandleConfigChange ==
    /\ \E newConfig \in SliderConfigs : UpdateConfig(newConfig)
    /\ lastOp' = "other"
    /\ UNCHANGED <<simVars, envVars, sensors, samples, dashboard>>

InterfaceNext ==
    \/ CallStart \/ Pause \/ Resume \/ TimerExpire \/ TimerCallback
    \/ Advance \/ HandleLoadScenario \/ HandleDensityChange
    \/ HandleConfigChange

InterfaceSpec == Init /\ [][InterfaceNext]_vars

----------------------------------------------------------------------------
(* A tick in which sampling, the allocation or the dashboard throws *)

\* the steps of the try block of tick() that call into other objects:
\* sensor.generateDensity (simulator.js:109), controller.computeGreenTimes
\* (113) and dashboard.update (132)
FailingSteps == {"sampling", "allocation", "sink"}

\* simulator.js:108-110 interrupted by a throw of the sensor after the
\* first sampledCount sensors, in the order of Object.entries(this.sensors)
sampledPrefix(gen, sampledCount) ==
    [lane \in Lanes |->
        IF \E i \in 1..sampledCount : InitialLanes[i] = lane
        THEN generateDensity(sensors[lane], gen[lane])
        ELSE sensors[lane]]

\* a tick whose catch block stops the simulation
TickThrowsStops(gen, failedStep) ==
    /\ ~tickSkips /\ ~durationReached(tickElapsed)
    /\ elapsedTimeSeconds' = tickElapsed
    /\ timers' = clearInterval(intervalId)
    /\ isRunning' = FALSE
    /\ isPaused' = FALSE
    /\ samples < MaxSamples
    /\ samples' = samples + 1
    /\ sensors' = [lane \in Lanes |-> generateDensity(sensors[lane], gen[lane])]
    /\ UNCHANGED <<ctlVars, speedMultiplier, intervalId, cycleCount,
                   simulationDurationSeconds, simulationStartTime,
                   pausedAtSeconds, dashboard>>

\* simulator.js:89-140 when the step failedStep throws: the steps before it
\* have taken effect, the rest of the try block is skipped and the catch
\* block of lines 137-139 logs the error
TickThrows(gen, failedStep) ==
    /\ ~tickSkips /\ ~durationReached(tickElapsed)
    /\ elapsedTimeSeconds' = tickElapsed
    /\ IF failedStep = "sampling"
       THEN /\ \E sampledCount \in 0..3 :
                  /\ sensors' = sampledPrefix(gen, sampledCount)
                  /\ IF sampledCount = 0 THEN UNCHANGED samples
                     ELSE samples < MaxSamples /\ samples' = samples + 1
            /\ UNCHANGED <<lanes, dashboard>>
       ELSE \E sampled \in {[lane \in Lanes |->
                    generateDensity(sensors[lane], gen[lane])]} :
            \E densities \in {[lane \in Lanes |->
                    sampled[lane].lastDensity]} :
            \E green \in {computeGreenTimes(densities)} :
               /\ samples < MaxSamples
               /\ samples' = samples + 1
               /\ sensors' = sampled
               /\ IF failedStep = "allocation"
                  THEN \* before or after the sort of controller.js:113
                       /\ lanes' \in {lanes, lanesAfter(densities)}
                       /\ UNCHANGED dashboard
                  ELSE \* dashboard.js:61-67: the state is stored, then
                       \* the history or the rendering throws
                       /\ lanes' = lanesAfter(densities)
                       /\ \E newState \in
                              {[cycleCount |-> cycleCount,
                                densities |-> densities,
                                greenTimes |-> green.greenTimes,
                                signals |-> computeSignals(green.greenTimes,
                                                           green.keys),
                                elapsedTime |-> tickElapsed,
                                totalDuration |-> simulationDurationSeconds]} :
                             dashboard' \in
                                 {[dashboard EXCEPT !.state = newState],
                                  dashboardUpdate(newState)}
    /\ UNCHANGED <<cycleLength, minGreen, maxGreen, yellowTime, allRedTime,
                   isPaused, isRunning, speedMultiplier, intervalId,
                   cycleCount, simulationDurationSeconds, simulationStartTime,
                   pausedAtSeconds, timers>>

\* the event loop runs the callback of a live timer and a step of the tick
\* throws; lastOp records that the tick caught the exception
TimerCallbackThrows ==
    /\ \E id \in queued \cap DOMAIN timers :
          /\ queued' = queued \ {id}
          /\ \E gen \in GenVectors, failedStep \in FailingSteps :
                 TickThrows(gen, failedStep)
    /\ lastOp' = "caught"
    /\ UNCHANGED <<ret, now>>

FaultNext ==
    \/ CallStart \/ Pause \/ Resume \/ Stop \/ TimerExpire \/ TimerCallback
    \/ TimerCallbackThrows \/ Advance

FaultSpec == Init /\ [][FaultNext]_vars

----------------------------------------------------------------------------
(* One scheduler followed over several cycles: start, pause, resume, stop, *)
(* reset, step and the timer, at the initial speed                         *)

MaxRunSamples == 2

\* the event loop runs the queued callback of timer id (simulator.js:72)
RunCycleCallback ==
    /\ \E id \in queued :
          /\ queued' = queued \ {id}
          /\ IF id \in DOMAIN timers
             THEN \E gen \in GenVectors : TickBounded(gen, MaxRunSamples)
             ELSE UNCHANGED <<ctlVars, simVars, timers, sensors, samples,
                              dashboard>>
    /\ lastOp' = "other"
    /\ UNCHANGED <<ret, now>>

\* simulator.js:250-256
RunCycleStep ==
    /\ lastOp' = "step"
    /\ IF ~isPaused \/ ~isRunning
       THEN UNCHANGED <<ctlVars, simVars, timers, sensors, samples, dashboard>>
       ELSE \E gen \in GenVectors : TickBounded(gen, MaxRunSamples)
    /\ UNCHANGED <<ret, now, queued>>

RunNext ==
    \/ CallStart \/ Pause \/ Resume \/ Stop \/ Reset \/ RunCycleStep
    \/ TimerExpire \/ RunCycleCallback \/ Advance

RunSpec == Init /\ [][RunNext]_vars

----------------------------------------------------------------------------
(* Properties of the AdaptiveController *)

\* the configuration invariant of the data model
ConfigInvariant ==
    /\ minGreen < maxGreen
    /\ Len(lanes) * (yellowTime + allRedTime) + Len(lanes) * minGreen
           <= cycleLength

C2_SumEqualsAvailable ==
    (ret.op = "computeGreenTimes" /\ ConfigInvariant
        /\ SumValues(ret.densities) # 0) =>
        SumValues(ret.greenTimes) = availableTime

\* C3: a config update that is rejected leaves all five configuration
\* fields as they were before the call
C3_RejectedUpdateAtomic ==
    [][(ret'.op = "updateConfig" /\ ret'.threw) =>
        UNCHANGED <<cycleLength, minGreen, maxGreen, yellowTime, allRedTime>>]_vars

----------------------------------------------------------------------------
(* The scheduler left to run: only start, setSpeed, the timer and the     *)
(* clock act (no pause, stop or reset), timer callbacks keep firing and   *)
(* wall-clock time advances                                                *)

\* a run is started only while the clock of the model leaves it room to end
StartInTime ==
    \E durationSeconds \in Durations :
        /\ now + durationSeconds * 1000 <= MaxClockSeconds * 1000
        /\ Start(durationSeconds)

LiveNext ==
    \/ StartInTime \/ CallSetSpeed \/ TimerExpire \/ TimerCallback \/ Advance

\* the callback of a live timer runs
LiveTimerCallback == \E id \in queued \cap DOMAIN timers : RunCallback(id)

\* the event loop drops the queued callback of a cleared timer
DroppedCallback == \E id \in queued \ DOMAIN timers : RunCallback(id)

\* the tick of a live timer that finds the duration reached
\* (simulator.js:99-103)
StoppingTick ==
    \E id \in queued \cap DOMAIN timers :
        ~tickSkips /\ durationReached(tickElapsed) /\ RunCallback(id)

\* the timer keeps expiring, the clock keeps advancing and the event loop
\* keeps running queued callbacks; a tick that would stop the scheduler
\* eventually runs however often setSpeed() replaces the timer in between.
\* Nothing is assumed about the ticks that emit.
LiveSpec ==
    /\ Init /\ [][LiveNext]_vars
    /\ WF_vars(TimerExpire) /\ WF_vars(Advance)
    /\ WF_vars(DroppedCallback) /\ SF_vars(StoppingTick)

----------------------------------------------------------------------------
(* Properties of the Simulator *)

Running == isRunning /\ ~isPaused
Paused == isRunning /\ isPaused

\* C4: resume() makes the elapsed-time accounting continuous: a tick at the
\* instant of the resume computes the elapsed time held at the pause, so that
\* later ticks add only the simulated time run after the resume
C4_ResumeContinuesElapsed ==
    [][(Paused /\ Resume) => tickElapsed' = pausedAtSeconds]_vars

\* C5: step() while Paused executes exactly one cycle: one record emitted,
\* the cycle counter one higher, still Paused, no timer started
C5_StepExecutesOneCycle ==
    [][(Paused /\ Step) =>
        /\ cycleCount' = cycleCount + 1
        /\ Len(dashboard'.received) = Len(dashboard.received) + 1
        /\ isPaused' /\ isRunning'
        /\ timers' = timers]_vars

\* C6: start() while Paused is equivalent to resume(): every step start()
\* takes from a Paused state is the step resume() takes from it
C6_StartWhilePausedIsResume ==
    [][(Paused /\ CallStart) => Resume]_vars

\* C7: with a finite duration set, the tick of a live timer stops the
\* scheduler without emitting exactly when its elapsed time has reached the
\* duration, and a scheduler left running with a finite duration eventually
\* stops
C7_AutoStop ==
    /\ [][(Running /\ simulationDurationSeconds > 0 /\ LiveTimerCallback) =>
            IF tickElapsed >= simulationDurationSeconds
            THEN /\ ~isRunning'
                 /\ intervalId \notin DOMAIN timers'
                 /\ UNCHANGED <<cycleCount, samples, sensors, dashboard>>
            ELSE isRunning']_vars
    /\ (isRunning /\ simulationDurationSeconds > 0) ~> ~isRunning

\* C7 witness: the scheduler stopped on its own at the duration, after
\* having emitted a cycle
C7_Witness ==
    /\ ~isRunning /\ simulationDurationSeconds > 0
    /\ elapsedTimeSeconds >= simulationDurationSeconds
    /\ cycleCount > 0

\* C8: stop() and reset() leave the scheduler not running with no live
\* timer, and while it is not running nothing but start() or reset() changes
\* the cycle counter, samples a sensor or emits to the sink
C8_NoCycleAfterCancel ==
    [][/\ (Stop \/ Reset) => (~isRunning' /\ DOMAIN timers' = {})
       /\ (~isRunning /\ ~CallStart /\ ~Reset) =>
             UNCHANGED <<cycleCount, samples, dashboard>>]_vars

\* C8 witness: the scheduler was cancelled after a cycle, while a callback
\* of its timer was already queued
C8_Witness ==
    /\ ~isRunning /\ cycleCount > 0
    /\ queued # {} /\ DOMAIN timers = {}

\* C9: while Paused a timer firing changes no scheduler state, samples no
\* sensor and emits nothing
C9_PausedTickNoEffect ==
    [][(Paused /\ TimerCallback) =>
        UNCHANGED <<simVars, timers, sensors, samples, dashboard, ctlVars>>]_vars

\* C9 witness: Paused after a cycle, with the callback of the live timer
\* queued
C9_Witness ==
    /\ Paused /\ cycleCount > 0
    /\ queued # {} /\ queued \subseteq DOMAIN timers

\* C10: start(d) in Idle or Stopped leaves the scheduler Running with cycle
\* counter 0, elapsed time 0 and total duration d, and leaves every sensor as
\* it was
C10_FreshStart ==
    [][\A durationSeconds \in Durations :
          (~isRunning /\ Start(durationSeconds)) =>
             /\ isRunning' /\ ~isPaused'
             /\ cycleCount' = 0
             /\ elapsedTimeSeconds' = 0
             /\ simulationDurationSeconds' = durationSeconds
             /\ UNCHANGED <<sensors, samples>>]_vars

\* C10 witness: a new run just started after an earlier run that had sampled
\* the sensors, with an override set
C10_Witness ==
    /\ Running /\ cycleCount = 0 /\ elapsedTimeSeconds = 0
    /\ simulationDurationSeconds = MaxDuration
    /\ dashboard.received = <<>>
    /\ samples > 0
    /\ \E lane \in Lanes : sensors[lane].overrideDensity # null

\* C11: reset() in any state leaves the scheduler Idle: no live timer, the
\* cycle counter and the elapsed time zero, and every sensor reset (override
\* cleared, last reading 50)
C11_ResetLeavesIdle ==
    [][Reset =>
        /\ ~isRunning' /\ ~isPaused'
        /\ DOMAIN timers' = {}
        /\ cycleCount' = 0 /\ elapsedTimeSeconds' = 0
        /\ \A lane \in Lanes :
              /\ sensors'[lane].overrideDensity = null
              /\ sensors'[lane].lastDensity = Percent(50)]_vars

\* C11 witness: Idle after a reset that followed a sampled cycle (a sensor
\* that has been sampled holds 50 only through reset())
C11_Witness ==
    /\ ~isRunning /\ ~isPaused /\ DOMAIN timers = {}
    /\ cycleCount = 0 /\ elapsedTimeSeconds = 0
    /\ samples > 0
    /\ \A lane \in Lanes :
          /\ sensors[lane].smoothedDensity # undefined
          /\ sensors[lane].overrideDensity = null
          /\ sensors[lane].lastDensity = Percent(50)

----------------------------------------------------------------------------
(* Properties of the VirtualSensor *)

\* C12: reset() clears the override, sets the last reading to 50 and
\* discards the smoothing state, so that the first sample after a reset
\* returns its target exactly
C12_ResetDiscardsSmoothing ==
    [][/\ SensorReset =>
            \A lane \in SensorLanes :
                /\ sensors'[lane].overrideDensity = null
                /\ sensors'[lane].lastDensity = Percent(50)
                /\ sensors'[lane].smoothedDensity = undefined
       /\ (ret.op = "reset" /\ SensorGenerateDensity) =>
            ret'.value = ret'.targetDensity]_vars

\* C13: a sample taken right after setDensity(v) returns clamp(v, 0, 100)
\* exactly, whatever the sensor held before
C13_OverrideReturnedExactly ==
    [][(ret.op = "setDensity" /\ ret.value # null /\ SensorGenerateDensity) =>
        ret'.value = Max(0, Min(Percent(100), Percent(ret.value)))]_vars

\* C13 witness: a sensor that had a smoothed value from earlier samples was
\* given an override outside [0,100] and then sampled
C13_Witness ==
    /\ samples >= 2
    /\ ret.op = "generateDensity"
    /\ ret.computedPercent # ret.targetDensity
    /\ ret.targetDensity = Percent(100)
    /\ ret.value = Percent(100)

\* C14: setDensity with no override (null) removes the active override and
\* leaves the smoothing state alone, so that the target of the next sample is
\* the generated value
C14_ClearOverride ==
    [][/\ (SensorSetDensity /\ ret'.value = null) =>
            \A lane \in SensorLanes :
                /\ sensors'[lane].overrideDensity = null
                /\ sensors'[lane].smoothedDensity = sensors[lane].smoothedDensity
       /\ (ret.op = "setDensity" /\ ret.value = null
             /\ SensorGenerateDensity) =>
            ret'.targetDensity = ret'.computedPercent]_vars

----------------------------------------------------------------------------
(* Further properties of the AdaptiveController *)

\* C16: when every reading is zero, computeGreenTimes returns minGreen for
\* every lane under every valid configuration, with no redistribution
C16_ZeroDemandGivesMinGreen ==
    (/\ ret.op = "computeGreenTimes"
     /\ ConfigInvariant
     /\ \A lane \in Lanes : ret.densities[lane] = 0) =>
        \A lane \in Lanes : ret.greenTimes[lane] = minGreen

\* C16 witness: an all-zero call under a valid configuration whose result
\* does not sum to the available time
C16_Witness ==
    /\ ret.op = "computeGreenTimes"
    /\ ConfigInvariant
    /\ \A lane \in Lanes : ret.densities[lane] = 0
    /\ SumValues(ret.greenTimes) # availableTime

\* C17: with the configuration {60, 10, 60, 3, 2} and the readings
\* {north: 80, south: 20, east: 60, west: 40}, computeGreenTimes returns
\* {north: 12, south: 10, east: 10, west: 8}, which sums to 40
C17_ReadmeExample ==
    (/\ ret.op = "computeGreenTimes" /\ ~ret.threw
     /\ cycleLength = 60 /\ minGreen = 10 /\ maxGreen = 60
     /\ yellowTime = 3 /\ allRedTime = 2
     /\ ret.densities = ReadmeDensities) =>
        /\ ret.greenTimes =
              [north |-> 12, south |-> 10, east |-> 10, west |-> 8]
        /\ SumValues(ret.greenTimes) = 40

\* what a controller whose lane list is still in the order of
\* controller.js:28 returns for the readings under the current configuration
freshGreenTimes(densities) ==
    IF SumValues(densities) = 0 THEN [lane \in Lanes |-> minGreen]
    ELSE IF availableTime - SumValues(constrained(densities)) = 0
    THEN constrained(densities)
    ELSE AdjustPass(sortedLanes(InitialLanes, densities),
                    constrained(densities),
                    availableTime - SumValues(constrained(densities)))

\* C18: computeGreenTimes is pure: its result is the one a controller with
\* the same configuration and no earlier calls returns for the same
\* readings, and the call changes no field of the controller, the order of
\* its lane list included
C18_ComputeGreenTimesPure ==
    [][CallComputeGreenTimes =>
        /\ ret'.greenTimes = freshGreenTimes(ret'.densities)
        /\ UNCHANGED <<cycleLength, minGreen, maxGreen, yellowTime,
                       allRedTime, lanes>>]_vars

\* C19: computeGreenTimes fails, returning no allocation, whenever the keys
\* of the readings are not exactly the lanes or a reading is not a number
C19_MalformedReadingsRejected ==
    (/\ ret.op = "computeGreenTimes"
     /\ "densities" \in DOMAIN ret
     /\ ~wellFormed(ret.densities)) => ret.threw

\* C20: computeGreenTimes returns no allocation computed from a
\* configuration that violates the configuration invariant: a call made
\* while the active configuration violates it fails
C20_InvalidConfigRejected ==
    (ret.op = "computeGreenTimes" /\ ~ConfigInvariant) => ret.threw

----------------------------------------------------------------------------
(* Further properties of the Simulator *)

\* C21: setSpeed(m) with m <= 0 fails in every state and leaves the speed
\* multiplier, the scheduled timer, the elapsed time, the cycle counter and
\* the running and paused flags as they were
C21_SetSpeedRejects ==
    [][\A multiplier \in Multipliers :
          (multiplier <= 0 /\ SetSpeed(multiplier)) =>
             /\ lastOp' = "threw"
             /\ UNCHANGED <<speedMultiplier, intervalId, timers, queued,
                            simulationStartTime, elapsedTimeSeconds,
                            cycleCount, isRunning, isPaused>>]_vars

\* C21 witness: a rejected setSpeed call on a scheduler that is Running at
\* speed 2 with its timer scheduled, after a cycle
C21_Witness ==
    /\ lastOp = "threw"
    /\ Running /\ speedMultiplier = 2 /\ cycleCount > 0
    /\ intervalId \in DOMAIN timers

\* C22: setSpeed(m) with a valid m, called while Running, leaves the elapsed
\* time and the cycle counter unchanged and keeps the scheduler Running
C22_SetSpeedKeepsProgress ==
    [][\A multiplier \in Multipliers :
          (Running /\ ~setSpeedThrows(multiplier) /\ SetSpeed(multiplier)) =>
             /\ UNCHANGED <<elapsedTimeSeconds, cycleCount>>
             /\ Running']_vars

\* C22 witness: Running at speed 2 on a rescheduled timer, with the elapsed
\* time and the cycle count of the cycle executed before the speed change
C22_Witness ==
    /\ Running /\ lastOp = "other" /\ speedMultiplier = 2
    /\ cycleCount = 1 /\ elapsedTimeSeconds = 1
    /\ intervalId \in DOMAIN timers /\ timers[intervalId] = adjustedInterval(2)

----------------------------------------------------------------------------
(* Properties of the signals computed from the green times *)

\* the lanes whose green time is the largest
largestLanes(greenTimes) ==
    {lane \in Lanes : \A other \in Lanes : greenTimes[lane] >= greenTimes[other]}

\* C23: in the result of a cycle exactly one lane is GREEN and all others
\* are RED, and the green time of the GREEN lane is greater than or equal to
\* the green time of every other lane
C23_OneGreenLargest ==
    ret.op = "computeSignals" =>
        \E active \in Lanes :
            /\ ret.signals[active] = "GREEN"
            /\ \A lane \in Lanes \ {active} : ret.signals[lane] = "RED"
            /\ active \in largestLanes(ret.greenTimes)

\* C23 witness: signals computed for distinct green times, where the GREEN
\* lane is neither the first nor the last key
C23_Witness ==
    /\ ret.op = "computeSignals"
    /\ Cardinality(largestLanes(ret.greenTimes)) = 1
    /\ ret.signals[ret.keys[2]] = "GREEN"

\* the first lane of a sequence of lanes that is in a set of lanes
RECURSIVE earliestOf(_, _)
earliestOf(order, tied) ==
    IF Head(order) \in tied THEN Head(order) ELSE earliestOf(Tail(order), tied)

\* C24: when several lanes share the largest green time, the GREEN lane is
\* the earliest of them in the order north, south, east, west, whatever the
\* readings of earlier cycles were
C24_TieByEnumerationOrder ==
    (ret.op = "computeSignals"
        /\ Cardinality(largestLanes(ret.greenTimes)) >= 2) =>
        ret.signals[earliestOf(InitialLanes, largestLanes(ret.greenTimes))]
            = "GREEN"

----------------------------------------------------------------------------
(* Properties of Simulator.getRemainingTime *)

\* C25 as stated: getRemainingTime() returns 0 whenever the duration is
\* unbounded or the scheduler is not in the Running state (Idle, Paused or
\* Stopped), otherwise max(0, duration - elapsed), and never a negative value
C25_RemainingTimeZeroUnlessRunning ==
    /\ (simulationDurationSeconds = 0 \/ ~Running) => getRemainingTime = 0
    /\ (simulationDurationSeconds # 0 /\ Running) =>
           getRemainingTime =
               Max(0, simulationDurationSeconds - elapsedTimeSeconds)
    /\ getRemainingTime >= 0

\* C25 amended: getRemainingTime() returns 0 whenever the duration is
\* unbounded or the scheduler is neither Running nor Paused (Idle or
\* Stopped); while Running and while Paused with a bounded duration it
\* returns max(0, duration - elapsed); it never returns a negative value
C25_RemainingTime ==
    /\ (simulationDurationSeconds = 0 \/ ~(Running \/ Paused)) =>
           getRemainingTime = 0
    /\ (simulationDurationSeconds # 0 /\ (Running \/ Paused)) =>
           getRemainingTime =
               Max(0, simulationDurationSeconds - elapsedTimeSeconds)
    /\ getRemainingTime >= 0

\* C25 witness: Paused in a bounded run, with time remaining
C25_Witness ==
    Paused /\ simulationDurationSeconds > 0 /\ getRemainingTime > 0

----------------------------------------------------------------------------
(* Properties of a tick that throws *)

\* C26: when sampling, the allocation or the sink throws during a tick, the
\* cycle counter is not incremented, the exception is caught inside the tick
\* and the periodic timer stays scheduled on a Running scheduler
C26_TickErrorContained ==
    [][TimerCallbackThrows =>
          /\ cycleCount' = cycleCount
          /\ lastOp' = "caught"
          /\ timers' = timers /\ intervalId' = intervalId
          /\ Running' /\ intervalId' \in DOMAIN timers']_vars

\* C26 witness: the sink threw after it stored the record of the first
\* cycle: the cycle is not counted and the timer is still scheduled
C26_Witness ==
    /\ lastOp = "caught" /\ Running
    /\ cycleCount = 0 /\ samples = 1 /\ Len(dashboard.received) = 1
    /\ intervalId \in DOMAIN timers

----------------------------------------------------------------------------
(* Properties of the periodic timer *)

\* C27: at most one periodic timer is scheduled at any moment, it is the one
\* the scheduler holds in intervalId, and the callback of a timer that
\* setSpeed (or stop or reset) has replaced never executes a tick
C27_SingleTimer ==
    /\ [](Cardinality(DOMAIN timers) <= 1 /\ DOMAIN timers \subseteq {intervalId})
    /\ [][\A id \in queued :
             (id # intervalId /\ RunCallback(id)) =>
                 UNCHANGED <<ctlVars, simVars, timers, sensors, samples,
                             dashboard>>]_vars

\* C27 witness: setSpeed(2) rescheduled a Running scheduler after its first
\* cycle while the callback of the previous timer was queued
C27_Witness ==
    /\ Running /\ cycleCount = 1
    /\ intervalId \in DOMAIN timers /\ timers[intervalId] = adjustedInterval(2)
    /\ queued # {} /\ intervalId \notin queued

----------------------------------------------------------------------------
(* Properties of the VirtualSensor constructor *)

----------------------------------------------------------------------------
(* Properties of the redistribution *)

\* C29: when computeGreenTimes returns for a non-zero total demand, either
\* the green times sum to availableTime or no lane can move one unit toward
\* the sign of the remaining difference without leaving [minGreen, maxGreen]
C29_RedistributionExhaustive ==
    (ret.op = "computeGreenTimes" /\ SumValues(ret.densities) # 0) =>
        LET diff == availableTime - SumValues(ret.greenTimes)
        IN  \/ diff = 0
            \/ /\ diff > 0
               /\ \A lane \in Lanes : ret.greenTimes[lane] + 1 > maxGreen
            \/ /\ diff < 0
               /\ \A lane \in Lanes : ret.greenTimes[lane] - 1 < minGreen

----------------------------------------------------------------------------
(* Properties of the elapsed time across a speed change *)

\* C30: a speed change while Running does not rescale the simulated time
\* already elapsed: a tick at the instant of the change computes the elapsed
\* time a tick would have computed just before it, so that later ticks add
\* only the wall-clock time since the change times the new multiplier
C30_SpeedChangeKeepsElapsed ==
    [][\A multiplier \in Multipliers :
          (Running /\ ~setSpeedThrows(multiplier) /\ SetSpeed(multiplier)) =>
              tickElapsed' = tickElapsed]_vars

----------------------------------------------------------------------------
(* Invariants of the scheduler *)

\* C31: within one run the elapsed time never decreases: in every Running
\* state the elapsed time a tick computes is greater than or equal to the
\* elapsed time the previous tick of the run stored
C31_ElapsedMonotonic ==
    Running => tickElapsed >= elapsedTimeSeconds

\* C32: whenever the scheduler is Running, the period of the scheduled timer
\* is tickInterval / speedMultiplier for the current speed multiplier
C32_TimerPeriodMatchesSpeed ==
    Running =>
        /\ intervalId \in DOMAIN timers
        /\ timers[intervalId] = adjustedInterval(speedMultiplier)

\* C33: the cycle indices of the records the sink received since the start
\* of the run are 0, 1, 2, ... without gap or repeat, and the cycle counter
\* equals the number of these records
C33_CycleIndicesConsecutive ==
    /\ cycleCount = Len(dashboard.received)
    /\ \A i \in 1..Len(dashboard.received) : dashboard.received[i] = i - 1

\* C33 witness: a run has emitted the records of its cycles 0 and 1
C33_Witness ==
    /\ dashboard.received = <<0, 1>> /\ cycleCount = 2 /\ isRunning

\* C34: in every reachable state isPaused implies isRunning
C34_PausedImpliesRunning ==
    isPaused => isRunning

\* C34 witness: the scheduler is Paused after a cycle, with its timer live
C34_Witness ==
    /\ isPaused /\ isRunning /\ cycleCount = 1
    /\ intervalId \in DOMAIN timers

\* C35: an operation called in a state where it is not valid changes
\* nothing: pause() when not running, resume() when not Paused, step() when
\* not Paused and start() when Running leave the flags, the cycle counter,
\* the elapsed time, the duration and the timer as they were and emit no
\* record
C35_InvalidCallIsNoOp ==
    [][(\/ ~isRunning /\ Pause
        \/ ~Paused /\ Resume
        \/ ~Paused /\ Step
        \/ Running /\ CallStart) =>
           UNCHANGED <<isRunning, isPaused, cycleCount, elapsedTimeSeconds,
                       simulationDurationSeconds, intervalId, timers,
                       dashboard>>]_vars

\* C35 witness: step() was called on a Running scheduler after its first
\* cycle
C35_Witness ==
    /\ lastOp = "step" /\ Running /\ cycleCount = 1
    /\ Len(dashboard.received) = 1

----------------------------------------------------------------------------
(* Properties of the order of the redistribution *)

\* the lanes the redistribution of the last call adjusted
adjustedLanes == {lane \in Lanes : ret.greenTimes[lane] # ret.constrained[lane]}

\* the lanes that could not move one unit toward the sign of the difference
\* without leaving [minGreen, maxGreen]
stuckLanes ==
    LET adjustment == Sign(ret.availableTime - SumValues(ret.constrained))
    IN  {lane \in Lanes :
            \/ ret.constrained[lane] + adjustment < minGreen
            \/ ret.constrained[lane] + adjustment > maxGreen}

\* C36: the redistribution visits the lanes in descending order of demand:
\* a lane is adjusted only if every lane with strictly greater demand was
\* adjusted too or could not move without leaving [minGreen, maxGreen]
C36_DescendingDemandOrder ==
    ret.op = "computeGreenTimes" =>
        \A lane \in adjustedLanes :
            \A other \in Lanes :
                ret.densities[other] > ret.densities[lane] =>
                    other \in adjustedLanes \cup stuckLanes

\* C36 witness: the difference ran out in mid-pass: a lane was adjusted and
\* a lane of strictly smaller demand that could have moved was not
C36_Witness ==
    /\ ret.op = "computeGreenTimes"
    /\ \E lane \in adjustedLanes :
          \E other \in Lanes \ (adjustedLanes \cup stuckLanes) :
              ret.densities[other] < ret.densities[lane]

----------------------------------------------------------------------------
(* Properties of the accepted configurations *)

\* C37: every configuration the constructor or updateConfig has accepted has
\* its five parameters strictly positive
C37_AcceptedConfigPositive ==
    ~ret.threw =>
        /\ cycleLength > 0 /\ minGreen > 0 /\ maxGreen > 0
        /\ yellowTime > 0 /\ allRedTime > 0

----------------------------------------------------------------------------
(* Properties of the sampling of a tick *)

\* C38: for a sample taken by a tick on a sensor without override, the peak
\* factor applied is the one of the wall-clock hour of the tick: 1.5 in the
\* hours 7 to 9 and 17 to 19, 0.3 from hour 22 to hour 5, and 1.0 otherwise
C38_PeakFactorOfTickHour ==
    (ret.op = "tick" /\ ~ret.overridden) =>
        LET hour == (ret.wallClockMs \div 3600000) % 24
        IN  ret.peakFactorTenths =
                IF (hour >= 7 /\ hour <= 9) \/ (hour >= 17 /\ hour <= 19)
                THEN 15
                ELSE IF hour >= 22 \/ hour <= 5 THEN 3 ELSE 10

----------------------------------------------------------------------------
(* Properties of the ownership of the scheduler's state *)

\* C39 as stated: loading a saved scenario, setting an override and
\* updating the configuration leave the total duration, the elapsed time and
\* the cycle counter of the scheduler unchanged, in every scheduler state
C39_OnlySchedulerWritesState ==
    [][(HandleLoadScenario \/ HandleDensityChange \/ HandleConfigChange) =>
          UNCHANGED <<simulationDurationSeconds, elapsedTimeSeconds,
                      cycleCount>>]_vars

\* C39 amended: setting an override and updating the configuration leave
\* the total duration, the elapsed time and the cycle counter unchanged;
\* loading a saved scenario leaves the elapsed time and the cycle counter
\* unchanged and, unless its configuration is rejected, sets the total
\* duration to the duration saved in the scenario
C39_LoadRestoresDurationOnly ==
    [][/\ (HandleDensityChange \/ HandleConfigChange) =>
              UNCHANGED <<simulationDurationSeconds, elapsedTimeSeconds,
                          cycleCount>>
       /\ \A scenario \in Scenarios :
              LoadScenario(scenario) =>
                  /\ UNCHANGED <<elapsedTimeSeconds, cycleCount>>
                  /\ simulationDurationSeconds' =
                         IF loadThrows(scenario)
                         THEN simulationDurationSeconds
                         ELSE scenario.simulationDuration]_vars

\* C39 witness: a scenario with a bounded duration was loaded into an
\* unbounded run that is Running after its first cycle
C39_Witness ==
    /\ lastOp = "loaded" /\ Running /\ cycleCount = 1 /\ elapsedTimeSeconds = 1
    /\ simulationDurationSeconds = MaxDuration
    /\ dashboard.received = <<>>

====
